---- MODULE Spec2Model ----
(***************************************************************************)
(* Verification model of the in-process resilience layer of the backend:   *)
(*   - RateLimiter.check_rate_limit   (src/backend/rate_limiter.py)        *)
(*   - CircuitBreaker.call            (src/backend/rate_limiter.py)        *)
(*   - GracefulShutdownManager and ActiveRequestTrackerMiddleware          *)
(*                                    (src/backend/shutdown_manager.py)    *)
(*   - InMemoryCache                  (src/backend/caching.py)             *)
(*                                                                         *)
(* Scheduling model: the code runs as asyncio tasks on one event loop, so  *)
(* a task is only suspended at an await that really suspends.  Every step  *)
(* between two such awaits is one atomic action below.                     *)
(*                                                                         *)
(* Time is in whole seconds.  None is << >> and a present value x is <<x>>.*)
(***************************************************************************)
EXTENDS Integers, Sequences, FiniteSets, TLC

VARIABLES
    now,            \* datetime.now(): the wall clock, in seconds
    \* ---- RateLimiter
    buckets,        \* RateLimiter.buckets: key -> list of timestamps
    rlProfile,      \* the limits a profiled caller passes for each key
    rlLast,         \* the last check_rate_limit call: arguments, result, bucket before
    rlAllowed,      \* history: per key, every timestamp ever recorded (never pruned)
    rlLog,          \* history: per key, the first calls made on it, in order
    rlUsage,        \* the last get_usage call: key, clock reading, what it returned
    \* ---- CircuitBreaker
    failure_threshold,  \* constructor argument
    recovery_timeout,   \* constructor argument, in seconds
    expected_exception, \* constructor argument: the class call() counts as failure
    state,              \* "CLOSED", "OPEN" or "HALF_OPEN"
    failure_count,
    last_failure_time,  \* None or Some(time)
    cbPc,           \* per task: where its call() stands, or how its last call ended
    cbErr,          \* per task: the class of the exception its call() raised
    cbCalls,        \* history: the number of call() invocations begun
    cbConsec,       \* history: recognized failures since the last successful call
    \* ---- GracefulShutdownManager and ActiveRequestTrackerMiddleware
    shutdown_timeout,   \* constructor argument, in seconds
    shutting_down,
    active_requests,
    startup_time,
    shutdown_callbacks, \* the registered callbacks, each "async" or "sync"
    sdPc,           \* where on_shutdown stands
    sdStart,        \* start_time of _wait_for_active_requests
    sdWake,         \* when the asyncio.sleep(1) of the drain loop is over
    sdIdx,          \* the callbacks _run_shutdown_callbacks has gone through
    req,            \* per request: where its dispatch stands, or how it ended
    sdLog,          \* history: the callbacks started and ended, in order
    sdRegistered,   \* history: the callbacks registered when on_shutdown began
    \* ---- InMemoryCache
    max_age,        \* constructor argument max_age_seconds, the default TTL
    data,           \* InMemoryCache.data: key -> None or Some(entry)
    cLast,          \* the last cache call: arguments, clock reading, result
    cWritten,       \* history: per key, the entry of its last set, None once
                    \* the key was invalidated
    \* ---- the tasks that use the cache, and the wrapper of cached()
    wTTL,           \* the max_age argument of cached(): None or Some(seconds)
    wPc,            \* per task: where its call of the wrapper stands
    wArgs,          \* per task: the key of its call of the wrapper while func runs
    wResult,        \* per task: what its last call of the wrapper returned
    wRuns,          \* history: how many times the wrapped function was executed
    wWrote,         \* history: per task, the key and entry of the set() it made
    \* ---- database.py, MongoDBPool
    dbInstance,     \* cls._instance: "None" or "pool"
    dbConnected,    \* _connected of the instance
    dbLock,         \* cls._lock: "free" or the task that holds it
    dbPc,           \* per task: where its get_instance() stands
    dbGot,          \* per task: what its last get_instance() ended with
    \* ---- error_handling.py, ErrorTracker
    max_recent,
    recent_errors,  \* per error id: None or Some(the count of the entry)
    error_count,
    etLast          \* history: the last log_error, its id and what it evicted

rlVars == <<buckets, rlProfile, rlLast, rlAllowed, rlLog, rlUsage>>

cbVars == <<failure_threshold, recovery_timeout, expected_exception, state,
            failure_count, last_failure_time, cbPc, cbErr, cbCalls, cbConsec>>

sdVars == <<shutdown_timeout, shutting_down, active_requests, startup_time,
            shutdown_callbacks, sdPc, sdStart, sdWake, sdIdx, req, sdLog,
            sdRegistered>>

sdHist == <<sdLog, sdRegistered>>

cVars == <<max_age, data, cLast, cWritten>>

wVars == <<wTTL, wPc, wArgs, wResult, wRuns, wWrote>>

dbVars == <<dbInstance, dbConnected, dbLock, dbPc, dbGot>>

etVars == <<max_recent, recent_errors, error_count, etLast>>

vars == <<now, rlVars, cbVars, sdVars, cVars, wVars, dbVars, etVars>>

None == << >>

Some(x) == <<x>>

Max(a, b) == IF a >= b THEN a ELSE b

(***************************************************************************)
(* RateLimiter                                                             *)
(***************************************************************************)

\* timedelta(minutes=1) and timedelta(hours=1), in seconds
Minute == 60

Hour == 3600

\* Bounds of the model: the largest limits a call passes
MaxPerMinute == 2

MaxPerHour == 3

\* The calls logged per key: one burst that exceeds the largest per-minute limit
LogCap == MaxPerMinute + 1

Keys == {"ip:x", "user:x"}

\* The key whose traffic the single-client specifications follow
Client == "ip:x"

\* The instants at which the clock is read: both sides of each window boundary
TimePoints == {0, 1, 59, 60, 61, 122, 3599, 3600, 3601, 3661}

\* [ts for ts in bucket if ts > one_hour_ago]
PruneHour(bucket, t) == SelectSeq(bucket, LAMBDA ts : ts > t - Hour)

\* RecentMinute with a window of two minutes
RecentMinute_TwoMinutes(bucket, t) ==
    SelectSeq(bucket, LAMBDA ts : ts > t - 2 * Minute)

\* [ts for ts in bucket if ts > one_minute_ago]
RecentMinute(bucket, t) == SelectSeq(bucket, LAMBDA ts : ts > t - Minute)

\* RetryAfter taking the newest timestamp of the window for the oldest
RetryAfter_FromNewest(window, windowStart) ==
    IF window = << >>
    THEN [outcome |-> "raise", retry |-> None]
    ELSE [outcome |-> "deny",
          retry |-> Some(Max(1, window[Len(window)] - windowStart))]

\* RetryAfter without the distance to the oldest timestamp: the floor alone
RetryAfter_FloorOnly(window, windowStart) ==
    IF window = << >>
    THEN [outcome |-> "raise", retry |-> None]
    ELSE [outcome |-> "deny", retry |-> Some(1)]

\* max(1, (oldest_in_window - window_start).total_seconds()); window[0] of an
\* empty list raises IndexError
RetryAfter(window, windowStart) ==
    IF window = << >>
    THEN [outcome |-> "raise", retry |-> None]
    ELSE [outcome |-> "deny", retry |-> Some(Max(1, window[1] - windowStart))]

\* check_rate_limit with the per-minute and per-hour comparisons off by one
\* (> for >=): one request too many is let through
CheckResult_OffByOne(bucket0, m, h, t) ==
    LET bucket == PruneHour(bucket0, t)
        recent_minute == RecentMinute(bucket, t)
    IN  IF Len(recent_minute) > m
        THEN LET r == RetryAfter(recent_minute, t - Minute)
             IN  [outcome |-> r.outcome, rule |-> "minute", retry |-> r.retry,
                  bucket |-> bucket]
        ELSE IF Len(bucket) > h
        THEN LET r == RetryAfter(bucket, t - Hour)
             IN  [outcome |-> r.outcome, rule |-> "hour", retry |-> r.retry,
                  bucket |-> bucket]
        ELSE [outcome |-> "allow", rule |-> "none", retry |-> None,
              bucket |-> Append(bucket, t)]

\* check_rate_limit recording the request before deciding, so that a denied
\* request is recorded too
CheckResult_RecordsDenied(bucket0, m, h, t) ==
    LET bucket == PruneHour(bucket0, t)
        recent_minute == RecentMinute(bucket, t)
    IN  IF Len(recent_minute) >= m
        THEN LET r == RetryAfter(recent_minute, t - Minute)
             IN  [outcome |-> r.outcome, rule |-> "minute", retry |-> r.retry,
                  bucket |-> Append(bucket, t)]
        ELSE IF Len(bucket) >= h
        THEN LET r == RetryAfter(bucket, t - Hour)
             IN  [outcome |-> r.outcome, rule |-> "hour", retry |-> r.retry,
                  bucket |-> Append(bucket, t)]
        ELSE [outcome |-> "allow", rule |-> "none", retry |-> None,
              bucket |-> Append(bucket, t)]

\* check_rate_limit putting the new timestamp at the head of the bucket
CheckResult_Prepends(bucket0, m, h, t) ==
    LET bucket == PruneHour(bucket0, t)
        recent_minute == RecentMinute(bucket, t)
    IN  IF Len(recent_minute) >= m
        THEN LET r == RetryAfter(recent_minute, t - Minute)
             IN  [outcome |-> r.outcome, rule |-> "minute", retry |-> r.retry,
                  bucket |-> bucket]
        ELSE IF Len(bucket) >= h
        THEN LET r == RetryAfter(bucket, t - Hour)
             IN  [outcome |-> r.outcome, rule |-> "hour", retry |-> r.retry,
                  bucket |-> bucket]
        ELSE [outcome |-> "allow", rule |-> "none", retry |-> None,
              bucket |-> <<t>> \o bucket]

\* The body of check_rate_limit under the lock, as a function of the bucket, the
\* limits and the clock value read on entry: the outcome ("allow", "deny", or
\* "raise" for the IndexError), the rule that decided, retry_after, and the
\* bucket left behind.
CheckResult(bucket0, m, h, t) ==
    LET bucket == PruneHour(bucket0, t)
        recent_minute == RecentMinute(bucket, t)
    IN  IF Len(recent_minute) >= m
        THEN LET r == RetryAfter(recent_minute, t - Minute)
             IN  [outcome |-> r.outcome, rule |-> "minute", retry |-> r.retry,
                  bucket |-> bucket]
        ELSE IF Len(bucket) >= h
        THEN LET r == RetryAfter(bucket, t - Hour)
             IN  [outcome |-> r.outcome, rule |-> "hour", retry |-> r.retry,
                  bucket |-> bucket]
        ELSE [outcome |-> "allow", rule |-> "none", retry |-> None,
              bucket |-> Append(bucket, t)]

\* check_rate_limit keeping one bucket for all keys
CheckRateLimit_SharedBucket(k, m, h) ==
    LET r == CheckResult(buckets[k], m, h, now)
    IN  /\ buckets' = [k2 \in Keys |-> r.bucket]
        /\ rlLast' = [key |-> k, m |-> m, h |-> h, at |-> now,
                      outcome |-> r.outcome, rule |-> r.rule, retry |-> r.retry,
                      before |-> buckets[k]]
        /\ UNCHANGED <<now, rlProfile, rlUsage, cbVars, sdVars, cVars, wVars, dbVars, etVars>>

\* check_rate_limit(key, requests_per_minute, requests_per_hour).  The clock is
\* read on entry; the lock is free whenever a task runs (no critical section of
\* this lock contains an await), so acquiring it never suspends and the call
\* is one atomic step.
CheckRateLimit(k, m, h) ==
    LET r == CheckResult(buckets[k], m, h, now)
    IN  /\ buckets' = [buckets EXCEPT ![k] = r.bucket]
        /\ rlLast' = [key |-> k, m |-> m, h |-> h, at |-> now,
                      outcome |-> r.outcome, rule |-> r.rule, retry |-> r.retry,
                      before |-> buckets[k]]
        /\ UNCHANGED <<now, rlProfile, rlUsage, cbVars, sdVars, cVars, wVars, dbVars, etVars>>

\* History kept beside a call on k: every recorded timestamp, and the first
\* LogCap calls with their results
Record(k) ==
    /\ rlAllowed' = IF rlLast'.outcome = "allow"
                    THEN [rlAllowed EXCEPT ![k] = Append(@, now)]
                    ELSE rlAllowed
    /\ rlLog' = IF Len(rlLog[k]) < LogCap
                THEN [rlLog EXCEPT ![k] = Append(@,
                        [at |-> now, outcome |-> rlLast'.outcome,
                         retry |-> rlLast'.retry])]
                ELSE rlLog

\* A caller with arbitrary limits
CheckAny == \E m \in 0..MaxPerMinute, h \in 0..MaxPerHour :
                CheckRateLimit(Client, m, h) /\ UNCHANGED <<rlAllowed, rlLog>>

\* A caller that always passes the key's own limits, as RateLimitByIP and
\* RateLimitByUser do
CheckProfiled ==
    /\ CheckRateLimit(Client, rlProfile[Client].m, rlProfile[Client].h)
    /\ Record(Client)

\* A call on any key with the limits of that key, as RateLimitByIP does for
\* "ip:..." and RateLimitByUser for "user:..."; the allowed timestamps of the
\* key are kept beside it
CheckKey(k) ==
    /\ CheckRateLimit(k, rlProfile[k].m, rlProfile[k].h)
    /\ rlAllowed' = IF rlLast'.outcome = "allow"
                    THEN [rlAllowed EXCEPT ![k] = Append(@, now)]
                    ELSE rlAllowed
    /\ UNCHANGED rlLog

\* get_usage(key): the bucket is read as it is and left as it is; the two
\* counts are taken over filtered copies, last_reset is bucket[0]
GetUsage(k) ==
    /\ rlUsage' = [key |-> k, at |-> now,
                   minute |-> Len(RecentMinute(buckets[k], now)),
                   hour |-> Len(PruneHour(buckets[k], now)),
                   last_reset |-> IF buckets[k] # << >>
                                  THEN Some(buckets[k][1]) ELSE None]
    /\ UNCHANGED <<now, buckets, rlProfile, rlLast, rlAllowed, rlLog, cbVars,
                   sdVars, cVars, wVars, dbVars, etVars>>

\* Time passes between calls
TickRL ==
    /\ \E t \in TimePoints : t > now /\ now' = t
    /\ UNCHANGED <<rlVars, cbVars, sdVars, cVars, wVars, dbVars, etVars>>

\* The instants at which the clock is read when two keys are followed
KeyTimePoints == {0, 59, 60, 3600, 3601}

\* Time passes between the calls on the two keys
TickKeys ==
    /\ \E t \in KeyTimePoints : t > now /\ now' = t
    /\ UNCHANGED <<rlVars, cbVars, sdVars, cVars, wVars, dbVars, etVars>>

NoCall == [key |-> "", m |-> 0, h |-> 0, at |-> 0, outcome |-> "none",
           rule |-> "none", retry |-> None, before |-> << >>]

NoUsage == [key |-> "", at |-> 0, minute |-> 0, hour |-> 0, last_reset |-> None]

InitRL ==
    /\ buckets = [k \in Keys |-> << >>]
    /\ rlLast = NoCall
    /\ rlUsage = NoUsage
    /\ rlAllowed = [k \in Keys |-> << >>]
    /\ rlLog = [k \in Keys |-> << >>]

(***************************************************************************)
(* CircuitBreaker                                                          *)
(***************************************************************************)

\* Bounds of the model: constructor arguments, calls begun, seconds on the clock
MaxThreshold == 2

MaxRecovery == 2

MaxCalls == 4

MaxTime == 3

\* The tasks that call the breaker concurrently
Tasks == {"t1", "t2"}

\* The exception classes that occur, each with its base class: Exception and
\* asyncio.CancelledError derive from BaseException, ConnectionError (through
\* OSError) from Exception
ExcClasses == {"Exception", "ConnectionError", "CancelledError"}

BaseOf(cls) == IF cls = "ConnectionError" THEN "Exception" ELSE "BaseException"

\* isinstance(an exception of class cls, expected): what an except clause tests
IsInstance(cls, expected) ==
    cls = expected \/ BaseOf(cls) = expected \/ expected = "BaseException"

\* raise Exception("Circuit breaker is OPEN. Service unavailable.")
RejectionClass == "Exception"

\* _should_attempt_reset()
ShouldAttemptReset ==
    IF last_failure_time = None
    THEN TRUE
    ELSE now - last_failure_time[1] >= recovery_timeout

\* _reset() that closes the breaker and keeps the count of failures
Reset_KeepsCount ==
    /\ state' = "CLOSED"
    /\ UNCHANGED failure_count
    /\ last_failure_time' = None

\* _reset()
Reset ==
    /\ state' = "CLOSED"
    /\ failure_count' = 0
    /\ last_failure_time' = None

\* call() that also stamps last_failure_time when it rejects, so that a
\* rejection restarts the recovery timer
CBBegin_RejectionRestartsTimer(t) ==
    /\ cbPc[t] = "idle"
    /\ cbCalls < MaxCalls
    /\ cbCalls' = cbCalls + 1
    /\ IF state = "OPEN"
       THEN IF ShouldAttemptReset
            THEN /\ state' = "HALF_OPEN"
                 /\ cbPc' = [cbPc EXCEPT ![t] = "in_trial"]
                 /\ UNCHANGED <<last_failure_time, cbErr>>
            ELSE /\ cbPc' = [cbPc EXCEPT ![t] = "rejected"]
                 /\ cbErr' = [cbErr EXCEPT ![t] = RejectionClass]
                 /\ last_failure_time' = Some(now)
                 /\ UNCHANGED state
       ELSE /\ cbPc' = [cbPc EXCEPT ![t] = "in_func"]
            /\ UNCHANGED <<state, last_failure_time, cbErr>>
    /\ UNCHANGED <<now, rlVars, sdVars, cVars, wVars, failure_threshold,
                   recovery_timeout, expected_exception,
                   failure_count, cbConsec, dbVars, etVars>>

\* call(), from its entry to the first suspension: the OPEN check, then either
\* the rejection or the start of func ("in_trial" marks the call that moved the
\* breaker to HALF_OPEN, "in_func" every other call awaiting func)
CBBegin(t) ==
    /\ cbPc[t] = "idle"
    /\ cbCalls < MaxCalls
    /\ cbCalls' = cbCalls + 1
    /\ IF state = "OPEN"
       THEN IF ShouldAttemptReset
            THEN /\ state' = "HALF_OPEN"
                 /\ cbPc' = [cbPc EXCEPT ![t] = "in_trial"]
                 /\ UNCHANGED cbErr
            ELSE /\ cbPc' = [cbPc EXCEPT ![t] = "rejected"]
                 /\ cbErr' = [cbErr EXCEPT ![t] = RejectionClass]
                 /\ UNCHANGED state
       ELSE /\ cbPc' = [cbPc EXCEPT ![t] = "in_func"]
            /\ UNCHANGED <<state, cbErr>>
    /\ UNCHANGED <<now, rlVars, sdVars, cVars, wVars, failure_threshold,
                   recovery_timeout, expected_exception,
                   failure_count, last_failure_time, cbConsec, dbVars, etVars>>

\* CBSuccess clearing failure_count on every success, the breaker CLOSED or not
CBSuccess_ClearsCount(t) ==
    /\ cbPc[t] \in {"in_func", "in_trial"}
    /\ cbPc' = [cbPc EXCEPT ![t] = "returned"]
    /\ IF state = "HALF_OPEN"
       THEN Reset
       ELSE failure_count' = 0 /\ UNCHANGED <<state, last_failure_time>>
    /\ cbConsec' = 0
    /\ UNCHANGED cbErr
    /\ UNCHANGED <<now, rlVars, sdVars, cVars, wVars, failure_threshold,
                   recovery_timeout, expected_exception, cbCalls, dbVars, etVars>>

\* call() resumed by func returning: reset when HALF_OPEN, return the result
CBSuccess(t) ==
    /\ cbPc[t] \in {"in_func", "in_trial"}
    /\ cbPc' = [cbPc EXCEPT ![t] = "returned"]
    /\ IF state = "HALF_OPEN"
       THEN Reset
       ELSE UNCHANGED <<state, failure_count, last_failure_time>>
    /\ cbConsec' = 0
    /\ UNCHANGED cbErr
    /\ UNCHANGED <<now, rlVars, sdVars, cVars, wVars, failure_threshold,
                   recovery_timeout, expected_exception, cbCalls, dbVars, etVars>>

\* CBFailure calling func again after a failure below the threshold
CBFailure_Retries(t) ==
    /\ cbPc[t] \in {"in_func", "in_trial"}
    /\ failure_count' = failure_count + 1
    /\ last_failure_time' = Some(now)
    /\ IF failure_count' >= failure_threshold
       THEN /\ state' = "OPEN"
            /\ cbPc' = [cbPc EXCEPT ![t] = "raised"]
            /\ \E cls \in ExcClasses :
                  /\ IsInstance(cls, expected_exception)
                  /\ cbErr' = [cbErr EXCEPT ![t] = cls]
       ELSE UNCHANGED <<state, cbPc, cbErr>>
    /\ cbConsec' = cbConsec + 1
    /\ UNCHANGED <<now, rlVars, sdVars, cVars, wVars, failure_threshold,
                   recovery_timeout, expected_exception, cbCalls, dbVars, etVars>>

\* call() resumed by func raising expected_exception: count, stamp, maybe open
CBFailure(t) ==
    /\ cbPc[t] \in {"in_func", "in_trial"}
    /\ cbPc' = [cbPc EXCEPT ![t] = "raised"]
    /\ \E cls \in ExcClasses :
          /\ IsInstance(cls, expected_exception)
          /\ cbErr' = [cbErr EXCEPT ![t] = cls]
    /\ failure_count' = failure_count + 1
    /\ last_failure_time' = Some(now)
    /\ IF failure_count' >= failure_threshold
       THEN state' = "OPEN"
       ELSE UNCHANGED state
    /\ cbConsec' = cbConsec + 1
    /\ UNCHANGED <<now, rlVars, sdVars, cVars, wVars, failure_threshold,
                   recovery_timeout, expected_exception, cbCalls, dbVars, etVars>>

\* CBOtherError with a bare except: every exception counts as a failure
CBOtherError_CountsAll(t) ==
    /\ cbPc[t] \in {"in_func", "in_trial"}
    /\ cbPc' = [cbPc EXCEPT ![t] = "raised_other"]
    /\ \E cls \in ExcClasses :
          /\ ~IsInstance(cls, expected_exception)
          /\ cbErr' = [cbErr EXCEPT ![t] = cls]
    /\ failure_count' = failure_count + 1
    /\ last_failure_time' = Some(now)
    /\ IF failure_count' >= failure_threshold
       THEN state' = "OPEN"
       ELSE UNCHANGED state
    /\ UNCHANGED <<now, rlVars, sdVars, cVars, wVars, failure_threshold,
                   recovery_timeout, expected_exception, cbCalls, cbConsec, dbVars, etVars>>

\* call() resumed by func raising anything else: the exception passes through
CBOtherError(t) ==
    /\ cbPc[t] \in {"in_func", "in_trial"}
    /\ cbPc' = [cbPc EXCEPT ![t] = "raised_other"]
    /\ \E cls \in ExcClasses :
          /\ ~IsInstance(cls, expected_exception)
          /\ cbErr' = [cbErr EXCEPT ![t] = cls]
    /\ UNCHANGED <<now, rlVars, sdVars, cVars, wVars, failure_threshold,
                   recovery_timeout, expected_exception, state,
                   failure_count, last_failure_time, cbCalls, cbConsec, dbVars, etVars>>

\* The caller takes the result or the exception of its call
CBDone(t) ==
    /\ cbPc[t] \in {"rejected", "returned", "raised", "raised_other"}
    /\ cbPc' = [cbPc EXCEPT ![t] = "idle"]
    /\ cbErr' = [cbErr EXCEPT ![t] = "none"]
    /\ UNCHANGED <<now, rlVars, sdVars, cVars, wVars, failure_threshold,
                   recovery_timeout, expected_exception, state,
                   failure_count, last_failure_time, cbCalls, cbConsec, dbVars, etVars>>

\* A second passes
TickCB ==
    /\ now < MaxTime
    /\ now' = now + 1
    /\ UNCHANGED <<rlVars, cbVars, sdVars, cVars, wVars, dbVars, etVars>>

\* CircuitBreaker.__init__(failure_threshold, recovery_timeout, expected_exception)
InitCB(th, rt, ee) ==
    /\ failure_threshold = th
    /\ recovery_timeout = rt
    /\ expected_exception = ee
    /\ state = "CLOSED"
    /\ failure_count = 0
    /\ last_failure_time = None
    /\ cbPc = [t \in Tasks |-> "idle"]
    /\ cbErr = [t \in Tasks |-> "none"]
    /\ cbCalls = 0
    /\ cbConsec = 0

\* external_api_breaker, the breaker the module constructs
InitBreakerIdle == InitCB(5, 60, "Exception")

\* rate_limiter, unused
InitLimiterIdle ==
    /\ InitRL
    /\ rlProfile = [k \in Keys |-> [m |-> 1, h |-> 1]]

(***************************************************************************)
(* GracefulShutdownManager and ActiveRequestTrackerMiddleware              *)
(***************************************************************************)

\* Bounds of the model: the constructor argument and the callbacks registered
MaxShutdownTimeout == 2

MaxCallbacks == 2

\* The requests that arrive, each once
Requests == {"r1", "r2"}

\* A blocking callback holds the event loop: no task runs any more
Running == sdPc # "blocked"

\* dispatch() that tracks the request without looking at shutting_down
Dispatch_NoShutdownCheck(r) ==
    /\ Running
    /\ req[r] = "new"
    /\ active_requests' = active_requests + 1
    /\ req' = [req EXCEPT ![r] = "active"]
    /\ UNCHANGED <<now, rlVars, cbVars, cVars, wVars, sdHist, shutdown_timeout, shutting_down,
                   startup_time, shutdown_callbacks, sdPc, sdStart, sdWake, sdIdx, dbVars, etVars>>

\* dispatch(), from its entry to await call_next(request): the 503 during
\* shutdown, else the request is counted and its handler starts
Dispatch(r) ==
    /\ Running
    /\ req[r] = "new"
    /\ IF shutting_down
       THEN /\ req' = [req EXCEPT ![r] = "rejected"]
            /\ UNCHANGED active_requests
       ELSE /\ active_requests' = active_requests + 1
            /\ req' = [req EXCEPT ![r] = "active"]
    /\ UNCHANGED <<now, rlVars, cbVars, cVars, wVars, sdHist, shutdown_timeout, shutting_down,
                   startup_time, shutdown_callbacks, sdPc, sdStart, sdWake, sdIdx, dbVars, etVars>>

\* dispatch() resumed by the handler returning: finally, then the response
DispatchReturn(r) ==
    /\ Running
    /\ req[r] = "active"
    /\ active_requests' = active_requests - 1
    /\ req' = [req EXCEPT ![r] = "finished"]
    /\ UNCHANGED <<now, rlVars, cbVars, cVars, wVars, sdHist, shutdown_timeout, shutting_down,
                   startup_time, shutdown_callbacks, sdPc, sdStart, sdWake, sdIdx, dbVars, etVars>>

\* DispatchRaise without the finally clause: a handler that raises leaves the
\* request counted
DispatchRaise_NoFinally(r) ==
    /\ Running
    /\ req[r] = "active"
    /\ req' = [req EXCEPT ![r] = "failed"]
    /\ UNCHANGED <<now, rlVars, cbVars, cVars, wVars, sdHist, shutdown_timeout, shutting_down,
                   active_requests, startup_time, shutdown_callbacks, sdPc,
                   sdStart, sdWake, sdIdx, dbVars, etVars>>

\* dispatch() resumed by the handler raising: finally, then the exception
DispatchRaise(r) ==
    /\ Running
    /\ req[r] = "active"
    /\ active_requests' = active_requests - 1
    /\ req' = [req EXCEPT ![r] = "failed"]
    /\ UNCHANGED <<now, rlVars, cbVars, cVars, wVars, sdHist, shutdown_timeout, shutting_down,
                   startup_time, shutdown_callbacks, sdPc, sdStart, sdWake, sdIdx, dbVars, etVars>>

\* register_shutdown_callback(callback), with a coroutine function or a plain one
RegisterShutdownCallback(kind) ==
    /\ Running
    /\ Len(shutdown_callbacks) < MaxCallbacks
    /\ shutdown_callbacks' = Append(shutdown_callbacks, kind)
    /\ UNCHANGED <<now, rlVars, cbVars, cVars, wVars, sdHist, shutdown_timeout, shutting_down,
                   active_requests, startup_time, sdPc, sdStart, sdWake, sdIdx, req, dbVars, etVars>>

\* on_startup(), called as the application starts
OnStartup ==
    /\ sdPc = "running"
    /\ startup_time # now
    /\ startup_time' = now
    /\ UNCHANGED <<now, rlVars, cbVars, cVars, wVars, sdHist, shutdown_timeout, shutting_down,
                   active_requests, shutdown_callbacks, sdPc, sdStart, sdWake,
                   sdIdx, req, dbVars, etVars>>

\* DrainStep without the elapsed > shutdown_timeout test: a drain loop that
\* only ends when no request is active
DrainStep_NoTimeout(start) ==
    IF active_requests > 0
    THEN sdPc' = "sleeping" /\ sdWake' = now + 1 /\ sdStart' = start
    ELSE sdPc' = "callbacks" /\ sdWake' = 0 /\ sdStart' = 0

\* One evaluation of the drain loop of _wait_for_active_requests at start_time
\* start: leave it (no active request, or the timeout exceeded) or sleep 1 s.
\* start_time and the wake-up are locals of the wait: gone (0) once it is left
DrainStep(start) ==
    IF active_requests > 0 /\ ~(now - start > shutdown_timeout)
    THEN sdPc' = "sleeping" /\ sdWake' = now + 1 /\ sdStart' = start
    ELSE sdPc' = "callbacks" /\ sdWake' = 0 /\ sdStart' = 0

\* on_shutdown(), from its entry to the first suspension: the flag, then the
\* first evaluation of the drain loop
OnShutdown ==
    /\ sdPc = "running"
    /\ shutting_down' = TRUE
    /\ DrainStep(now)
    /\ sdRegistered' = Len(shutdown_callbacks)
    /\ UNCHANGED <<now, rlVars, cbVars, cVars, wVars, shutdown_timeout, active_requests,
                   startup_time, shutdown_callbacks, sdIdx, req, sdLog, dbVars, etVars>>

\* The drain loop resumed after asyncio.sleep(1)
WaitPoll ==
    /\ sdPc = "sleeping"
    /\ now >= sdWake
    /\ DrainStep(sdStart)
    /\ UNCHANGED <<now, rlVars, cbVars, cVars, wVars, sdHist, shutdown_timeout, shutting_down,
                   active_requests, startup_time, shutdown_callbacks,
                   sdIdx, req, dbVars, etVars>>

\* What _run_shutdown_callbacks logs when a callback ends: the info line of a
\* callback that completed, or the error line of one that timed out or raised
Logged(outcome) == IF outcome = "completed" THEN "completed" ELSE "failed"

\* _run_shutdown_callbacks: the next callback is a coroutine function and is
\* awaited under wait_for(timeout=10)
CallbackStartAsync ==
    /\ sdPc = "callbacks"
    /\ sdIdx < Len(shutdown_callbacks)
    /\ shutdown_callbacks[sdIdx + 1] = "async"
    /\ sdPc' = "in_callback"
    /\ sdLog' = Append(sdLog, [ev |-> "start", idx |-> sdIdx + 1, outcome |-> "none"])
    /\ UNCHANGED <<now, rlVars, cbVars, cVars, wVars, shutdown_timeout, shutting_down,
                   active_requests, startup_time, shutdown_callbacks, sdStart,
                   sdWake, sdIdx, req, sdRegistered, dbVars, etVars>>

\* CallbackEndAsync going back to a callback that did not complete
CallbackEndAsync_RetriesFailed(outcome) ==
    /\ sdPc = "in_callback"
    /\ outcome \in {"completed", "failed", "timed_out"}
    /\ sdPc' = "callbacks"
    /\ sdIdx' = IF outcome = "completed" THEN sdIdx + 1 ELSE sdIdx
    /\ sdLog' = Append(sdLog, [ev |-> "end", idx |-> sdIdx + 1, outcome |-> Logged(outcome)])
    /\ UNCHANGED <<now, rlVars, cbVars, cVars, wVars, shutdown_timeout, shutting_down,
                   active_requests, startup_time, shutdown_callbacks, sdStart,
                   sdWake, req, sdRegistered, dbVars, etVars>>

\* The awaited callback completes, raises, or is cut off by wait_for (the
\* seconds it takes are not counted)
CallbackEndAsync(outcome) ==
    /\ sdPc = "in_callback"
    /\ outcome \in {"completed", "failed", "timed_out"}
    /\ sdPc' = "callbacks"
    /\ sdIdx' = sdIdx + 1
    /\ sdLog' = Append(sdLog, [ev |-> "end", idx |-> sdIdx + 1, outcome |-> Logged(outcome)])
    /\ UNCHANGED <<now, rlVars, cbVars, cVars, wVars, shutdown_timeout, shutting_down,
                   active_requests, startup_time, shutdown_callbacks, sdStart,
                   sdWake, req, sdRegistered, dbVars, etVars>>

\* CallbackSync without the except clauses: the exception of a callback ends
\* on_shutdown there and then
CallbackSync_FailureAborts(outcome) ==
    /\ sdPc = "callbacks"
    /\ sdIdx < Len(shutdown_callbacks)
    /\ shutdown_callbacks[sdIdx + 1] = "sync"
    /\ outcome \in {"completed", "failed", "never_returns"}
    /\ IF outcome = "never_returns"
       THEN /\ sdPc' = "blocked"
            /\ sdLog' = Append(sdLog, [ev |-> "start", idx |-> sdIdx + 1,
                                       outcome |-> "none"])
            /\ UNCHANGED sdIdx
       ELSE /\ sdIdx' = sdIdx + 1
            /\ sdLog' = sdLog \o <<[ev |-> "start", idx |-> sdIdx + 1,
                                     outcome |-> "none"],
                                    [ev |-> "end", idx |-> sdIdx + 1,
                                     outcome |-> Logged(outcome)]>>
            /\ sdPc' = IF outcome = "failed" THEN "done" ELSE sdPc
    /\ UNCHANGED <<now, rlVars, cbVars, cVars, wVars, shutdown_timeout, shutting_down,
                   active_requests, startup_time, shutdown_callbacks, sdStart,
                   sdWake, req, sdRegistered, dbVars, etVars>>

\* _run_shutdown_callbacks: the next callback is a plain function and is called
\* in place, under no timeout: it returns, raises, or never returns
CallbackSync(outcome) ==
    /\ sdPc = "callbacks"
    /\ sdIdx < Len(shutdown_callbacks)
    /\ shutdown_callbacks[sdIdx + 1] = "sync"
    /\ outcome \in {"completed", "failed", "never_returns"}
    /\ IF outcome = "never_returns"
       THEN /\ sdPc' = "blocked"
            /\ sdLog' = Append(sdLog, [ev |-> "start", idx |-> sdIdx + 1,
                                       outcome |-> "none"])
            /\ UNCHANGED sdIdx
       ELSE /\ sdIdx' = sdIdx + 1
            /\ sdLog' = sdLog \o <<[ev |-> "start", idx |-> sdIdx + 1,
                                     outcome |-> "none"],
                                    [ev |-> "end", idx |-> sdIdx + 1,
                                     outcome |-> Logged(outcome)]>>
            /\ UNCHANGED sdPc
    /\ UNCHANGED <<now, rlVars, cbVars, cVars, wVars, shutdown_timeout, shutting_down,
                   active_requests, startup_time, shutdown_callbacks, sdStart,
                   sdWake, req, sdRegistered, dbVars, etVars>>

\* The loop over the callbacks is over: on to _final_cleanup
CallbacksDone ==
    /\ sdPc = "callbacks"
    /\ sdIdx >= Len(shutdown_callbacks)
    /\ sdPc' = "cleanup"
    /\ UNCHANGED <<now, rlVars, cbVars, cVars, wVars, sdHist, shutdown_timeout, shutting_down,
                   active_requests, startup_time, shutdown_callbacks, sdStart,
                   sdWake, sdIdx, req, dbVars, etVars>>

\* FinalCleanup reopening the service: shutting_down set back to False
FinalCleanup_ResetsFlag ==
    /\ sdPc = "cleanup"
    /\ sdPc' = "done"
    /\ shutting_down' = FALSE
    /\ UNCHANGED <<now, rlVars, cbVars, cVars, wVars, sdHist, shutdown_timeout,
                   active_requests, startup_time, shutdown_callbacks, sdStart,
                   sdWake, sdIdx, req, dbVars, etVars>>

\* _final_cleanup(), whose failures are caught, and the end of on_shutdown
FinalCleanup ==
    /\ sdPc = "cleanup"
    /\ sdPc' = "done"
    /\ UNCHANGED <<now, rlVars, cbVars, cVars, wVars, sdHist, shutdown_timeout, shutting_down,
                   active_requests, startup_time, shutdown_callbacks, sdStart,
                   sdWake, sdIdx, req, dbVars, etVars>>

\* A second passes (the clock stops at MaxTime, but not under a drain loop
\* that sleeps)
TickSD ==
    /\ Running
    /\ now < MaxTime \/ (sdPc = "sleeping" /\ now < sdWake)
    /\ now' = now + 1
    /\ UNCHANGED <<rlVars, cbVars, sdVars, cVars, wVars, dbVars, etVars>>

\* GracefulShutdownManager.__init__(shutdown_timeout_seconds)
\* A second passes on an event loop that is free: the asyncio.sleep(1) of the
\* drain loop is resumed when it is due, before the clock moves on
TickDrain ==
    /\ ~(sdPc = "sleeping" /\ now >= sdWake)
    /\ TickSD

InitSD(timeout) ==
    /\ shutdown_timeout = timeout
    /\ shutting_down = FALSE
    /\ active_requests = 0
    /\ startup_time = 0
    /\ shutdown_callbacks = << >>
    /\ sdPc = "running"
    /\ sdStart = 0
    /\ sdWake = 0
    /\ sdIdx = 0
    /\ req = [r \in Requests |-> "new"]
    /\ sdLog = << >>
    /\ sdRegistered = 0

\* shutdown_manager, the manager the module constructs
InitShutdownIdle == InitSD(30)

(***************************************************************************)
(* InMemoryCache                                                           *)
(*                                                                         *)
(* Every critical section of the cache is free of awaits, so self.lock is  *)
(* never held when a task asks for it and acquiring it never suspends: get,*)
(* set, invalidate and invalidate_pattern are one atomic action each.      *)
(***************************************************************************)

\* The longest max_age, passed to set() or to the constructor, in seconds
MaxTTL == 2

\* Cache keys and invalidation patterns are strings, here sequences of characters
CacheKeys == {<<"a", "b">>, <<"b", "c">>}

Patterns == {<< >>, <<"a">>, <<"b">>, <<"c">>, <<"a", "b">>, <<"c", "b">>}

\* The values callers store; PyNone is Python's None, which get also returns
\* for a key it does not find
Values == {"v1", "PyNone"}

\* The max_age argument of set: left out (None), or a number of seconds
TTLArgs == {None} \cup {Some(n) : n \in 0..MaxTTL}

\* pattern in key, for strings: key[i : i + len(pattern)] == pattern for some i
Contains_PrefixOnly(pattern, key) ==
    Len(pattern) <= Len(key) /\ SubSeq(key, 1, Len(pattern)) = pattern

Contains(pattern, key) ==
    \E i \in 0..(Len(key) - Len(pattern)) :
        SubSeq(key, i + 1, i + Len(pattern)) = pattern

\* max_age or self.max_age: Python's or yields its right operand when the left
\* one is None or 0
OrDefault(arg, default) ==
    IF arg = None \/ arg = Some(0) THEN default ELSE arg[1]

\* What get(key) at time t returns and leaves in the map d; the comparison
\* with >= instead of > first
GetResult_ExpiresAtDeadline(d, key, t) ==
    IF d[key] = None
    THEN [result |-> "PyNone", data |-> d, removed |-> 0]
    ELSE IF t >= d[key][1].expires_at
         THEN [result |-> "PyNone", data |-> [d EXCEPT ![key] = None], removed |-> 1]
         ELSE [result |-> d[key][1].value, data |-> d, removed |-> 0]

\* get that also sweeps every other expired entry out of the map
GetResult_SweepsExpired(d, key, t) ==
    LET swept == [k \in DOMAIN d |->
                     IF d[k] # None /\ t > d[k][1].expires_at THEN None ELSE d[k]]
    IN  IF d[key] = None
        THEN [result |-> "PyNone", data |-> swept, removed |-> 0]
        ELSE IF t > d[key][1].expires_at
             THEN [result |-> "PyNone", data |-> swept, removed |-> 1]
             ELSE [result |-> d[key][1].value, data |-> swept, removed |-> 0]

GetResult(d, key, t) ==
    IF d[key] = None
    THEN [result |-> "PyNone", data |-> d, removed |-> 0]
    ELSE IF t > d[key][1].expires_at
         THEN [result |-> "PyNone", data |-> [d EXCEPT ![key] = None], removed |-> 1]
         ELSE [result |-> d[key][1].value, data |-> d, removed |-> 0]

\* get(key)
CacheGet(key) ==
    LET g == GetResult(data, key, now) IN
    /\ data' = g.data
    /\ cLast' = [op |-> "get", key |-> key, value |-> "PyNone", ttl |-> None,
                 at |-> now, result |-> g.result, removed |-> g.removed]
    /\ UNCHANGED <<now, rlVars, cbVars, sdVars, max_age, cWritten, dbVars, etVars>>

\* The entry set() builds: datetime.now() is read once for expires_at and a
\* second time for created_at
Entry(value, ttl, at, created) ==
    [value |-> value, expires_at |-> at + OrDefault(ttl, max_age),
     created_at |-> created]

\* set that keeps the created_at of the entry it replaces
CacheSet_KeepsCreatedAt(key, value, ttl, late) ==
    /\ now + late <= MaxTime
    /\ data' = [data EXCEPT ![key] =
                   Some(Entry(value, ttl, now,
                              IF data[key] # None THEN data[key][1].created_at
                              ELSE now + late))]
    /\ now' = now + late
    /\ cWritten' = [cWritten EXCEPT ![key] = data'[key]]
    /\ cLast' = [op |-> "set", key |-> key, value |-> value, ttl |-> ttl,
                 at |-> now, result |-> "PyNone", removed |-> 0]
    /\ UNCHANGED <<rlVars, cbVars, sdVars, max_age, dbVars, etVars>>

\* set(key, value, max_age=ttl); the clock may have moved on by `late` between
\* the two readings
CacheSet(key, value, ttl, late) ==
    /\ now + late <= MaxTime
    /\ data' = [data EXCEPT ![key] = Some(Entry(value, ttl, now, now + late))]
    /\ now' = now + late
    /\ cWritten' = [cWritten EXCEPT ![key] = data'[key]]
    /\ cLast' = [op |-> "set", key |-> key, value |-> value, ttl |-> ttl,
                 at |-> now, result |-> "PyNone", removed |-> 0]
    /\ UNCHANGED <<rlVars, cbVars, sdVars, max_age, dbVars, etVars>>

\* The map invalidate(key) leaves; without the membership test and the
\* deletion of one key first
Invalidated_ClearsAll(d, key) == [k \in CacheKeys |-> None]

Invalidated(d, key) == IF d[key] # None THEN [d EXCEPT ![key] = None] ELSE d

\* invalidate(key)
CacheInvalidate(key) ==
    /\ data' = Invalidated(data, key)
    /\ cWritten' = [cWritten EXCEPT ![key] = None]
    /\ cLast' = [op |-> "invalidate", key |-> key, value |-> "PyNone",
                 ttl |-> None, at |-> now, result |-> "PyNone",
                 removed |-> IF data[key] # None THEN 1 ELSE 0]
    /\ UNCHANGED <<now, rlVars, cbVars, sdVars, max_age, dbVars, etVars>>

\* keys_to_delete of invalidate_pattern(pattern)
KeysToDelete(d, pattern) == {k \in CacheKeys : d[k] # None /\ Contains(pattern, k)}

\* invalidate_pattern(pattern)
CacheInvalidatePattern(pattern) ==
    LET gone == KeysToDelete(data, pattern) IN
    /\ data' = [k \in CacheKeys |-> IF k \in gone THEN None ELSE data[k]]
    /\ cWritten' = [k \in CacheKeys |->
                       IF Contains(pattern, k) THEN None ELSE cWritten[k]]
    /\ cLast' = [op |-> "invalidate_pattern", key |-> pattern, value |-> "PyNone",
                 ttl |-> None, at |-> now, result |-> "PyNone",
                 removed |-> Cardinality(gone)]
    /\ UNCHANGED <<now, rlVars, cbVars, sdVars, max_age, dbVars, etVars>>

\* A second passes
TickCache ==
    /\ now < MaxTime
    /\ now' = now + 1
    /\ UNCHANGED <<rlVars, cbVars, sdVars, cVars, wVars, dbVars, etVars>>

\* InMemoryCache(max_age_seconds=default), before any call
InitCache(default) ==
    /\ max_age = default
    /\ data = [k \in CacheKeys |-> None]
    /\ cLast = [op |-> "none", key |-> << >>, value |-> "PyNone", ttl |-> None,
                at |-> 0, result |-> "PyNone", removed |-> 0]
    /\ cWritten = [k \in CacheKeys |-> None]

\* organisms_cache, the first cache the module constructs
InitCacheIdle == InitCache(3600)

(***************************************************************************)
(* caching.py: the tasks that call the cache, and the decorator cached().  *)
(* A task gives up control only at an await that really suspends.  The     *)
(* lock of the cache is free whenever a task reaches `async with           *)
(* self.lock`, because no block under the lock contains an await; so get   *)
(* and set run to their end without another task in between, and the one   *)
(* suspension of the wrapper is the await of the wrapped function.        *)
(***************************************************************************)

\* The executions of the wrapped function that are followed
MaxRuns == 3

\* The tasks that call the cache
CacheTasks == {"c1", "c2"}

\* cache_key of the wrapper: key_prefix and the name of the function, then
\* the text of the arguments
WrapperKey(fn, args) == <<fn, args>>

\* The functions and arguments the wrapper is called with
WrapperCalls == {c \in [fn : {"a", "b"}, args : {"b", "c"}] :
                    WrapperKey(c.fn, c.args) \in CacheKeys}

\* The wrapper up to `await func(...)`: the key, the get, and
\* the return of a cached value that is not None
WrapperCall(t, fn, args) ==
    LET cache_key == WrapperKey(fn, args)
        cached_value == GetResult(data, cache_key, now).result
    IN  /\ wPc[t] = "idle"
        /\ CacheGet(cache_key)
        /\ IF cached_value # "PyNone"
           THEN /\ wResult' = [wResult EXCEPT ![t] = cached_value]
                /\ UNCHANGED <<wPc, wArgs, wRuns>>
           ELSE /\ wRuns < MaxRuns
                /\ wPc' = [wPc EXCEPT ![t] = "in_func"]
                /\ wArgs' = [wArgs EXCEPT ![t] = cache_key]
                /\ wResult' = [wResult EXCEPT ![t] = "none"]
                /\ wRuns' = wRuns + 1
        /\ UNCHANGED <<wTTL, wWrote>>

\* func returns result: the wrapper stores it with max_age or self.max_age
\* and returns it
WrapperFuncReturns(t, result, late) ==
    /\ wPc[t] = "in_func"
    /\ CacheSet(wArgs[t], result, Some(OrDefault(wTTL, max_age)), late)
    /\ wPc' = [wPc EXCEPT ![t] = "idle"]
    /\ wArgs' = [wArgs EXCEPT ![t] = << >>]
    /\ wResult' = [wResult EXCEPT ![t] = result]
    /\ UNCHANGED <<wTTL, wRuns, wWrote>>

\* func raises: the exception leaves the wrapper, nothing is stored
WrapperFuncRaises(t) ==
    /\ wPc[t] = "in_func"
    /\ wPc' = [wPc EXCEPT ![t] = "idle"]
    /\ wArgs' = [wArgs EXCEPT ![t] = << >>]
    /\ wResult' = [wResult EXCEPT ![t] = "raised"]
    /\ UNCHANGED <<now, rlVars, cbVars, sdVars, cVars, wTTL, wRuns, wWrote, dbVars, etVars>>

\* One task awaits set(key, value, max_age=ttl), once
TaskSet(t, key, value, ttl, late) ==
    /\ wWrote[t] = None
    /\ CacheSet(key, value, ttl, late)
    /\ wWrote' = [wWrote EXCEPT ![t] =
                     Some([key |-> key,
                           entry |-> Entry(value, ttl, now, now + late)])]
    /\ UNCHANGED <<wTTL, wPc, wArgs, wResult, wRuns>>

\* Every task may take its next step as if the lock of get made it wait
CpuFree_LockSuspends == TRUE

\* No task is between the expiry check of get and its `async with self.lock`:
\* the lock is free there and acquiring it does not suspend, so that task
\* alone goes on to the del
CpuFree == \A t \in CacheTasks : wPc[t] # "at_lock"

\* get(key) of task t up to `async with self.lock`: the membership test, the
\* expiry check, and the two returns that need no lock
GetBegin(t, key) ==
    /\ wPc[t] = "idle"
    /\ IF data[key] = None
       THEN /\ wResult' = [wResult EXCEPT ![t] = "PyNone"]
            /\ UNCHANGED <<wPc, wArgs>>
       ELSE IF now > data[key][1].expires_at
       THEN /\ wPc' = [wPc EXCEPT ![t] = "at_lock"]
            /\ wArgs' = [wArgs EXCEPT ![t] = key]
            /\ wResult' = [wResult EXCEPT ![t] = "none"]
       ELSE /\ wResult' = [wResult EXCEPT ![t] = data[key][1].value]
            /\ UNCHANGED <<wPc, wArgs>>
    /\ UNCHANGED <<now, rlVars, cbVars, sdVars, cVars, wTTL, wRuns, wWrote, dbVars, etVars>>

\* get(key) of task t under the lock: del self.data[key], which raises
\* KeyError for a key that is not in the map, then return None
GetPurge(t) ==
    LET key == wArgs[t] IN
    /\ wPc[t] = "at_lock"
    /\ wPc' = [wPc EXCEPT ![t] = "idle"]
    /\ wArgs' = [wArgs EXCEPT ![t] = << >>]
    /\ IF data[key] = None
       THEN /\ wResult' = [wResult EXCEPT ![t] = "raised"]
            /\ UNCHANGED <<data, cLast>>
       ELSE /\ wResult' = [wResult EXCEPT ![t] = "PyNone"]
            /\ data' = [data EXCEPT ![key] = None]
            /\ cLast' = [op |-> "get", key |-> key, value |-> "PyNone",
                         ttl |-> None, at |-> now, result |-> "PyNone",
                         removed |-> 1]
    /\ UNCHANGED <<now, rlVars, cbVars, sdVars, max_age, cWritten, wTTL, wRuns,
                   wWrote, dbVars, etVars>>

\* cached(max_age=ttl) around a function, no call under way
InitTasks(ttl) ==
    /\ wTTL = ttl
    /\ wPc = [t \in CacheTasks |-> "idle"]
    /\ wArgs = [t \in CacheTasks |-> << >>]
    /\ wResult = [t \in CacheTasks |-> "none"]
    /\ wRuns = 0
    /\ wWrote = [t \in CacheTasks |-> None]

\* The default of the decorator, max_age: Optional[int] = None
InitTasksIdle == InitTasks(None)

(***************************************************************************)
(* database.py: MongoDBPool.get_instance and _initialize.  The one await   *)
(* that suspends is the ping of _initialize, made with the class lock      *)
(* held and after cls._instance has been assigned.                         *)
(***************************************************************************)

\* The tasks that call get_instance
DbTasks == {"d1", "d2", "d3"}

\* What a call of get_instance has ended with, and what get_db() on the
\* instance it returned has given since
NoInstance == [result |-> "none", connected |-> FALSE, db |-> "none"]

Raised == [result |-> "raised", connected |-> FALSE, db |-> "none"]

\* cls._instance as it is when get_instance returns it
Handed(connected) == [result |-> "instance", connected |-> connected, db |-> "none"]

\* get_instance() of task t up to its first suspension.  With an instance
\* assigned it returns it at once; otherwise it takes the free lock, assigns
\* a new MongoDBPool to cls._instance and enters _initialize, which raises
\* ValueError without MONGO_URL and suspends in the ping with it.
GetInstance(t, mongo_url) ==
    /\ dbPc[t] = "idle"
    /\ IF dbInstance # "None"
       THEN /\ dbGot' = [dbGot EXCEPT ![t] = Handed(dbConnected)]
            /\ UNCHANGED <<dbInstance, dbLock, dbPc>>
       ELSE /\ dbLock = "free"
            /\ dbInstance' = "pool"
            /\ IF mongo_url
               THEN /\ dbLock' = t
                    /\ dbPc' = [dbPc EXCEPT ![t] = "in_ping"]
                    /\ dbGot' = [dbGot EXCEPT ![t] = NoInstance]
               ELSE /\ dbGot' = [dbGot EXCEPT ![t] = Raised]
                    /\ UNCHANGED <<dbLock, dbPc>>
    /\ UNCHANGED <<now, rlVars, cbVars, sdVars, cVars, wVars, dbConnected, etVars>>

\* The ping answers: _db and _connected are set, the lock is released and
\* get_instance returns cls._instance
PingOk(t) ==
    /\ dbPc[t] = "in_ping"
    /\ dbConnected' = TRUE
    /\ dbLock' = "free"
    /\ dbPc' = [dbPc EXCEPT ![t] = "idle"]
    /\ dbGot' = [dbGot EXCEPT ![t] = Handed(TRUE)]
    /\ UNCHANGED <<now, rlVars, cbVars, sdVars, cVars, wVars, dbInstance, etVars>>

\* The ping times out or fails: RuntimeError leaves _initialize and
\* get_instance, the lock is released, cls._instance stays assigned
PingFails(t) ==
    /\ dbPc[t] = "in_ping"
    /\ dbLock' = "free"
    /\ dbPc' = [dbPc EXCEPT ![t] = "idle"]
    /\ dbGot' = [dbGot EXCEPT ![t] = Raised]
    /\ UNCHANGED <<now, rlVars, cbVars, sdVars, cVars, wVars, dbInstance,
                   dbConnected, etVars>>

\* get_db() of task t on the instance it was given: RuntimeError unless the
\* instance is connected
GetDb(t) ==
    /\ dbPc[t] = "idle"
    /\ dbGot[t].result = "instance"
    /\ dbGot' = [dbGot EXCEPT ![t].db = IF dbConnected THEN "db" ELSE "raised"]
    /\ UNCHANGED <<now, rlVars, cbVars, sdVars, cVars, wVars, dbInstance,
                   dbConnected, dbLock, dbPc, etVars>>

\* The class attributes of MongoDBPool, no call under way
InitPoolIdle ==
    /\ dbInstance = "None"
    /\ dbConnected = FALSE
    /\ dbLock = "free"
    /\ dbPc = [t \in DbTasks |-> "idle"]
    /\ dbGot = [t \in DbTasks |-> NoInstance]

(***************************************************************************)
(* error_handling.py: ErrorTracker.  An error id is the first 8 characters *)
(* of a random uuid; ids are numbers here, ordered as the strings are.     *)
(***************************************************************************)

\* Bounds: the ids uuid4 can give, the largest max_recent, the calls followed
MaxIds == 3

MaxRecent == 2

MaxErrors == 4

ErrorIds == 1..MaxIds

\* The ids of the entries of a map of errors
Stored(errors) == {id \in ErrorIds : errors[id] # None}

\* min(self.recent_errors.keys()): the smallest id string
MinKey(errors) == CHOOSE id \in Stored(errors) : \A other \in Stored(errors) : id <= other

\* log_error(error, ...) when uuid4 gives error_id
LogError(error_id) ==
    LET added == [recent_errors EXCEPT ![error_id] = Some(error_count + 1)]
        oldest_id == MinKey(added)
    IN  /\ error_count < MaxErrors
        /\ error_count' = error_count + 1
        /\ IF Cardinality(Stored(added)) > max_recent
           THEN /\ recent_errors' = [added EXCEPT ![oldest_id] = None]
                /\ etLast' = [id |-> error_id, count |-> error_count + 1,
                              evicted |-> Some(added[oldest_id][1]),
                              before |-> recent_errors]
           ELSE /\ recent_errors' = added
                /\ etLast' = [id |-> error_id, count |-> error_count + 1,
                              evicted |-> None, before |-> recent_errors]
        /\ UNCHANGED <<now, rlVars, cbVars, sdVars, cVars, wVars, dbVars, max_recent>>

\* get_error(error_id): the entry, or {} for an id that is not stored
GetError(errors, error_id) == errors[error_id]

\* ErrorTracker(max_recent=n), before any call
InitTracker(n) ==
    /\ max_recent = n
    /\ recent_errors = [id \in ErrorIds |-> None]
    /\ error_count = 0
    /\ etLast = [id |-> 0, count |-> 0, evicted |-> None,
                 before |-> [id \in ErrorIds |-> None]]

\* error_tracker, the tracker the module constructs
InitTrackerIdle == InitTracker(1000)

(***************************************************************************)
(* Specifications                                                          *)
(***************************************************************************)

\* Each profiled caller has limits of at least 1, as every caller in the source
Profiles == [m : 1..MaxPerMinute, h : 1..MaxPerHour]

Init ==
    /\ now = 0
    /\ InitLimiterIdle
    /\ InitBreakerIdle
    /\ InitShutdownIdle
    /\ InitCacheIdle
    /\ InitTasksIdle
    /\ InitPoolIdle
    /\ InitTrackerIdle

InitProfile ==
    /\ now = 0
    /\ InitRL
    /\ \E p \in Profiles : rlProfile = [k \in Keys |-> p]
    /\ InitBreakerIdle
    /\ InitShutdownIdle
    /\ InitCacheIdle
    /\ InitTasksIdle
    /\ InitPoolIdle
    /\ InitTrackerIdle

InitBreaker ==
    /\ now = 0
    /\ InitLimiterIdle
    /\ \E th \in 1..MaxThreshold, rt \in 1..MaxRecovery,
          ee \in {"Exception", "ConnectionError"} : InitCB(th, rt, ee)
    /\ InitShutdownIdle
    /\ InitCacheIdle
    /\ InitTasksIdle
    /\ InitPoolIdle
    /\ InitTrackerIdle

InitShutdown ==
    /\ now = 0
    /\ InitLimiterIdle
    /\ InitBreakerIdle
    /\ \E timeout \in 1..MaxShutdownTimeout : InitSD(timeout)
    /\ InitCacheIdle
    /\ InitTasksIdle
    /\ InitPoolIdle
    /\ InitTrackerIdle

InitCacheSpec ==
    /\ now = 0
    /\ InitLimiterIdle
    /\ InitBreakerIdle
    /\ InitShutdownIdle
    /\ \E default \in 1..MaxTTL : InitCache(default)
    /\ InitTasksIdle
    /\ InitPoolIdle
    /\ InitTrackerIdle

\* A cache and a function decorated with @cache.cached(max_age=ttl)
InitCached ==
    /\ now = 0
    /\ InitLimiterIdle
    /\ InitBreakerIdle
    /\ InitShutdownIdle
    /\ \E default \in 1..MaxTTL : InitCache(default)
    /\ \E ttl \in TTLArgs : InitTasks(ttl)
    /\ InitPoolIdle
    /\ InitTrackerIdle

\* A cache and the tasks that each set a key of it
InitCacheSets ==
    /\ now = 0
    /\ InitLimiterIdle
    /\ InitBreakerIdle
    /\ InitShutdownIdle
    /\ \E default \in 1..MaxTTL : InitCache(default)
    /\ InitTasksIdle
    /\ InitPoolIdle
    /\ InitTrackerIdle

NextRL == CheckAny \/ TickRL

\* The two dependencies, each with the limits of its own kind of key
InitKeys ==
    /\ now = 0
    /\ InitRL
    /\ \E p \in Profiles, q \in Profiles :
          rlProfile = [k \in Keys |-> IF k = Client THEN p ELSE q]
    /\ InitBreakerIdle
    /\ InitShutdownIdle
    /\ InitCacheIdle
    /\ InitTasksIdle
    /\ InitPoolIdle
    /\ InitTrackerIdle

NextRLKeys == (\E k \in Keys : CheckKey(k)) \/ TickKeys

NextRLProfile == CheckProfiled \/ TickRL

NextRLUsage == CheckProfiled \/ (\E k \in Keys : GetUsage(k)) \/ TickRL

NextCB ==
    \/ \E t \in Tasks : CBBegin(t)
    \/ \E t \in Tasks : CBSuccess(t)
    \/ \E t \in Tasks : CBFailure(t)
    \/ \E t \in Tasks : CBOtherError(t)
    \/ \E t \in Tasks : CBDone(t)
    \/ TickCB

NextSD ==
    \/ \E r \in Requests : Dispatch(r)
    \/ \E r \in Requests : DispatchReturn(r)
    \/ \E r \in Requests : DispatchRaise(r)
    \/ \E kind \in {"async", "sync"} : RegisterShutdownCallback(kind)
    \/ OnStartup
    \/ OnShutdown
    \/ WaitPoll
    \/ CallbackStartAsync
    \/ \E outcome \in {"completed", "failed", "timed_out"} : CallbackEndAsync(outcome)
    \/ \E outcome \in {"completed", "failed", "never_returns"} : CallbackSync(outcome)
    \/ CallbacksDone
    \/ FinalCleanup
    \/ TickSD

\* The rate limiter under callers with arbitrary limits
SpecRL == Init /\ [][NextRL]_vars

\* The rate limiter under callers that keep one pair of limits per key
SpecRLProfile == InitProfile /\ [][NextRLProfile]_vars

\* The circuit breaker under concurrent callers
SpecCB == InitBreaker /\ [][NextCB]_vars

\* Requests, callback registration and shutdown, interleaved
SpecSD == InitShutdown /\ [][NextSD]_vars

\* The requests and on_shutdown on an event loop that is never blocked: no
\* callback is registered, the drain loop's sleep is resumed on time, and a
\* coroutine that can go on does go on
NextSDDrain ==
    \/ \E r \in Requests : Dispatch(r)
    \/ \E r \in Requests : DispatchReturn(r)
    \/ \E r \in Requests : DispatchRaise(r)
    \/ OnShutdown
    \/ WaitPoll
    \/ CallbacksDone
    \/ FinalCleanup
    \/ TickDrain

SpecSDDrain ==
    /\ InitShutdown
    /\ [][NextSDDrain]_vars
    /\ WF_vars(WaitPoll)
    /\ WF_vars(TickDrain)

NextCache ==
    \/ \E key \in CacheKeys, value \in Values, ttl \in TTLArgs, late \in {0, 1} :
          CacheSet(key, value, ttl, late) /\ UNCHANGED wVars
    \/ \E key \in CacheKeys : CacheGet(key) /\ UNCHANGED wVars
    \/ \E key \in CacheKeys : CacheInvalidate(key) /\ UNCHANGED wVars
    \/ \E pattern \in Patterns : CacheInvalidatePattern(pattern) /\ UNCHANGED wVars
    \/ TickCache

\* The decorated function called by the tasks, and its keys invalidated
NextCached ==
    \/ \E t \in CacheTasks, c \in WrapperCalls : WrapperCall(t, c.fn, c.args)
    \/ \E t \in CacheTasks, result \in Values, late \in {0, 1} :
          WrapperFuncReturns(t, result, late)
    \/ \E t \in CacheTasks : WrapperFuncRaises(t)
    \/ \E key \in CacheKeys : CacheInvalidate(key) /\ UNCHANGED wVars
    \/ TickCache

\* The key that the tasks contend for
HotKeys == {<<"a", "b">>}

\* The tasks get, set and invalidate one key of the cache; a task runs until
\* it suspends
NextCacheTasks ==
    \/ \E t \in CacheTasks, key \in HotKeys : CpuFree /\ GetBegin(t, key)
    \/ \E t \in CacheTasks : GetPurge(t)
    \/ \E key \in HotKeys, value \in Values, ttl \in TTLArgs, late \in {0, 1} :
          CpuFree /\ CacheSet(key, value, ttl, late) /\ UNCHANGED wVars
    \/ \E key \in HotKeys : CpuFree /\ CacheInvalidate(key) /\ UNCHANGED wVars
    \/ \E pattern \in Patterns :
          CpuFree /\ CacheInvalidatePattern(pattern) /\ UNCHANGED wVars
    \/ TickCache

\* The tasks set keys of one cache, in any order
NextCacheSets ==
    \/ \E t \in CacheTasks, key \in CacheKeys, value \in Values, ttl \in TTLArgs,
          late \in {0, 1} : TaskSet(t, key, value, ttl, late)
    \/ TickCache

\* The rate limiter under profiled callers and an observer calling get_usage
SpecRLKeys == InitKeys /\ [][NextRLKeys]_vars

SpecRLUsage == InitProfile /\ [][NextRLUsage]_vars

\* One cache under callers that get, set and invalidate in any order
SpecCache == InitCacheSpec /\ [][NextCache]_vars

SpecCached == InitCached /\ [][NextCached]_vars

SpecCacheTasks == InitCacheSets /\ [][NextCacheTasks]_vars

\* The pool and the tasks that ask for it
InitPool ==
    /\ now = 0
    /\ InitLimiterIdle
    /\ InitBreakerIdle
    /\ InitShutdownIdle
    /\ InitCacheIdle
    /\ InitTasksIdle
    /\ InitPoolIdle
    /\ InitTrackerIdle

NextPool ==
    \/ \E t \in DbTasks, mongo_url \in BOOLEAN : GetInstance(t, mongo_url)
    \/ \E t \in DbTasks : PingOk(t)
    \/ \E t \in DbTasks : PingFails(t)
    \/ \E t \in DbTasks : GetDb(t)

SpecPool == InitPool /\ [][NextPool]_vars

\* A tracker of a small max_recent
InitTrackerSpec ==
    /\ now = 0
    /\ InitLimiterIdle
    /\ InitBreakerIdle
    /\ InitShutdownIdle
    /\ InitCacheIdle
    /\ InitTasksIdle
    /\ InitPoolIdle
    /\ \E n \in 1..MaxRecent : InitTracker(n)

NextTracker == \E error_id \in ErrorIds : LogError(error_id)

SpecTracker == InitTrackerSpec /\ [][NextTracker]_vars

SpecCacheSets == InitCacheSets /\ [][NextCacheSets]_vars

(***************************************************************************)
(* Properties of the rate limiter                                          *)
(***************************************************************************)

\* The number of timestamps of s in the window (lo, hi]
InWindow(s, lo, hi) == Cardinality({i \in DOMAIN s : s[i] > lo /\ s[i] <= hi})

RECURSIVE NewerThan(_, _)
\* s without the timestamps that are not newer than lo, order kept
NewerThan(s, lo) ==
    IF s = << >> THEN << >>
    ELSE IF Head(s) > lo THEN <<Head(s)>> \o NewerThan(Tail(s), lo)
    ELSE NewerThan(Tail(s), lo)

\* C1: when a key is always checked with the same limits m >= 1 and h >= 1, the
\* requests allowed for it number at most m in every window (T - 1 minute, T]
\* and at most h in every window (T - 1 hour, T].
C1_WindowsBounded ==
    \A k \in Keys : \A T \in TimePoints :
        /\ InWindow(rlAllowed[k], T - Minute, T) <= rlProfile[k].m
        /\ InWindow(rlAllowed[k], T - Hour, T) <= rlProfile[k].h

\* C1 witness: the key was denied, and over time more requests were allowed for
\* it than its per-hour limit admits in one hour.
C1_Witness ==
    /\ rlLast.outcome = "deny"
    /\ Len(rlAllowed[Client]) > rlProfile[Client].h
    /\ rlProfile[Client].m > 1

\* C2: the decision of check_rate_limit(key, m, h) at time at, on the bucket it
\* found: with the timestamps not newer than at - 1h dropped, deny if those
\* newer than at - 1m number >= m (the per-minute rule, first), else deny if
\* those left number >= h, else append at and return (allowed, no retryAfter).
C2_Decision ==
    rlLast.outcome # "none" =>
        LET kept == NewerThan(rlLast.before, rlLast.at - Hour)
            inMinute == InWindow(kept, rlLast.at - Minute, rlLast.at)
        IN  IF inMinute >= rlLast.m
            THEN rlLast.outcome = "deny" /\ rlLast.rule = "minute"
            ELSE IF Len(kept) >= rlLast.h
            THEN rlLast.outcome = "deny" /\ rlLast.rule = "hour"
            ELSE /\ rlLast.outcome = "allow"
                 /\ rlLast.retry = None
                 /\ buckets[rlLast.key] = Append(kept, rlLast.at)

\* C2 restricted to limits of at least 1 (for the record; not the claim)
C2_DecisionPositiveLimits ==
    (rlLast.m >= 1 /\ rlLast.h >= 1) => C2_Decision

\* C3: a denied call records nothing: the bucket it leaves is the bucket it
\* found without the timestamps outside the last hour, and the key is allowed
\* again at exactly the instants at which it would have been without the call.
C3_DenialRecordsNothing ==
    rlLast.outcome = "deny" =>
        /\ buckets[rlLast.key] = NewerThan(rlLast.before, rlLast.at - Hour)
        /\ \A t \in TimePoints : t >= rlLast.at =>
               CheckResult(buckets[rlLast.key], rlLast.m, rlLast.h, t).outcome
                   = CheckResult(rlLast.before, rlLast.m, rlLast.h, t).outcome

\* C3 witness: a denial that found a timestamp older than one hour in the bucket
C3_Witness ==
    /\ rlLast.outcome = "deny"
    /\ Len(buckets[rlLast.key]) < Len(rlLast.before)

\* C4: from an empty bucket, with limits m >= 1 and h > m, of m+1 consecutive
\* calls on a key made within one minute the first m are allowed and call m+1
\* is denied with 0 < retryAfter <= 60.
C4_BurstDenied ==
    \A k \in Keys :
        LET m == rlProfile[k].m
            log == rlLog[k]
        IN  rlProfile[k].h > m =>
                \A n \in DOMAIN log :
                    (n <= m + 1 /\ log[n].at - log[1].at < Minute) =>
                        IF n <= m
                        THEN log[n].outcome = "allow"
                        ELSE /\ log[n].outcome = "deny"
                             /\ log[n].retry # None
                             /\ log[n].retry[1] > 0
                             /\ log[n].retry[1] <= Minute

\* C4 witness: call m+1 of a burst that took more than one instant was denied
C4_Witness ==
    LET m == rlProfile[Client].m
        log == rlLog[Client]
    IN  /\ rlProfile[Client].h > m
        /\ m > 1
        /\ Len(log) >= m + 1
        /\ log[m + 1].at - log[1].at < Minute
        /\ log[m + 1].at > log[1].at
        /\ log[m + 1].outcome = "deny"

\* A check_rate_limit call is made in this step, its predecessor on the key
\* (if any) more than one minute before it
SpacedCall ==
    /\ rlLast' # rlLast
    /\ \/ rlLast.outcome = "none"
       \/ rlLast.key = rlLast'.key /\ rlLast'.at - rlLast.at > Minute

\* C24: with a per-minute limit of at least 1, a call made more than one
\* minute after the call before it on the key is never denied by the
\* per-minute rule: it is denied only by the per-hour rule, and exactly when
\* the bucket holds at least the per-hour limit of timestamps from the last hour.
C24_SpacedCallsOnlyHourDenied ==
    [][(SpacedCall /\ rlLast'.m >= 1) =>
          LET c == rlLast'
              inHour == InWindow(c.before, c.at - Hour, c.at)
          IN  /\ c.rule # "minute"
              /\ c.outcome = "deny" => (c.rule = "hour" /\ inHour >= c.h)
              /\ (c.h >= 1 /\ inHour >= c.h) => c.outcome = "deny"
              /\ inHour < c.h => c.outcome = "allow"]_vars

\* C24 witness: three calls, each more than one minute after the one before,
\* the first two allowed and the third denied by the per-hour rule
C24_Witness ==
    LET log == rlLog[Client] IN
    /\ Len(log) = 3
    /\ log[2].at - log[1].at > Minute
    /\ log[3].at - log[2].at > Minute
    /\ log[1].outcome = "allow" /\ log[2].outcome = "allow"
    /\ log[3].outcome = "deny"
    /\ rlLast.at = log[3].at /\ rlLast.rule = "hour"

\* The oldest timestamp of bucket that is newer than lo
OldestAfter(bucket, lo) ==
    CHOOSE ts \in {bucket[i] : i \in DOMAIN bucket} :
        /\ ts > lo
        /\ \A i \in DOMAIN bucket : bucket[i] > lo => ts <= bucket[i]

\* C29: the retry_after of a denial is max(1, oldest - windowStart), oldest
\* the oldest timestamp inside the violated window and windowStart the call's
\* time less one minute for a per-minute denial, less one hour for a per-hour
\* denial; it lies in 1..60 for a per-minute denial and in 1..3600 for a
\* per-hour denial.
C29_RetryAfterFromOldest ==
    rlLast.outcome = "deny" =>
        LET span == IF rlLast.rule = "minute" THEN Minute ELSE Hour
            windowStart == rlLast.at - span
        IN  /\ rlLast.rule \in {"minute", "hour"}
            /\ rlLast.retry =
                  Some(Max(1, OldestAfter(rlLast.before, windowStart) - windowStart))
            /\ rlLast.retry[1] >= 1
            /\ rlLast.retry[1] <= span

\* C29 witness: a per-hour denial on a bucket of several timestamps, the
\* oldest of them about to leave the window
C29_Witness ==
    /\ rlLast.outcome = "deny"
    /\ rlLast.rule = "hour"
    /\ Len(rlLast.before) > 1
    /\ rlLast.before[1] # rlLast.before[Len(rlLast.before)]
    /\ rlLast.retry = Some(1)

\* C25: no bucket read works on a timestamp older than one hour: what
\* check_rate_limit decides on, and the counts and the last_reset that
\* get_usage returns, are taken from timestamps of the last hour only, and
\* get_usage, like check_rate_limit, leaves the bucket pruned.
C25_ReadsSeeLastHourOnly ==
    /\ []((rlLast.outcome # "none" /\ rlLast.at = now) =>
             \A i \in DOMAIN buckets[rlLast.key] :
                 buckets[rlLast.key][i] > now - Hour)
    /\ [][rlUsage' # rlUsage =>
             LET u == rlUsage'
                 bucket == buckets'[u.key]
             IN  /\ u.minute = InWindow(bucket, u.at - Minute, u.at)
                 /\ u.hour = InWindow(bucket, u.at - Hour, u.at)
                 /\ u.last_reset # None => u.last_reset[1] > u.at - Hour
                 /\ \A i \in DOMAIN bucket : bucket[i] > u.at - Hour]_vars

(***************************************************************************)
(* Properties of the circuit breaker                                       *)
(***************************************************************************)

\* Task t begins a call() in this step
CallStep(t) == cbPc[t] = "idle" /\ cbPc'[t] # "idle"

\* The time since last_failure_time is still less than recovery_timeout
WithinRecovery ==
    /\ last_failure_time # None
    /\ now - last_failure_time[1] < recovery_timeout

\* C5: from CLOSED the breaker moves to OPEN exactly when failure_threshold
\* recognized failures have occurred in a row, a successful call in between
\* starting the run over.
C5_OpensOnConsecutiveFailures ==
    [][state = "CLOSED" =>
          ((state' = "OPEN") <=>
              (cbConsec' > cbConsec /\ cbConsec' >= failure_threshold))]_vars

\* C6: a call() made while the breaker is OPEN and less than recovery_timeout
\* has passed since last_failure_time is rejected without invoking the
\* operation, and leaves state, failure_count and last_failure_time unchanged.
C6_FailFast ==
    [][\A t \in Tasks :
          (CallStep(t) /\ state = "OPEN" /\ WithinRecovery) =>
              /\ cbPc'[t] = "rejected"
              /\ state' = state
              /\ failure_count' = failure_count
              /\ last_failure_time' = last_failure_time]_vars

\* C6 witness: a call was rejected some time after the last failure, before
\* recovery_timeout had passed
C6_Witness ==
    /\ state = "OPEN"
    /\ WithinRecovery
    /\ now > last_failure_time[1]
    /\ \E t \in Tasks : cbPc[t] = "rejected"

\* C7: a call() made while the breaker is OPEN and at least recovery_timeout
\* after last_failure_time moves it to HALF_OPEN and invokes the operation as
\* the trial; when the trial succeeds the breaker is CLOSED with
\* failure_count = 0 and last_failure_time cleared, and the caller has the result.
C7_TrialSuccessCloses ==
    [][\A t \in Tasks :
          /\ (CallStep(t) /\ state = "OPEN" /\ ~WithinRecovery) =>
                 (state' = "HALF_OPEN" /\ cbPc'[t] = "in_trial")
          /\ (cbPc[t] = "in_trial" /\ cbPc'[t] = "returned") =>
                 /\ state' = "CLOSED"
                 /\ failure_count' = 0
                 /\ last_failure_time' = None]_vars

\* C8: when the HALF_OPEN trial ends in a recognized failure the breaker is
\* OPEN again with last_failure_time the time of that failure (so that calls
\* within recovery_timeout of it are rejected, by C6).
C8_TrialFailureReopens ==
    [][\A t \in Tasks :
          (cbPc[t] = "in_trial" /\ cbPc'[t] = "raised") =>
              /\ state' = "OPEN"
              /\ last_failure_time' = Some(now)]_vars

\* C9: while the call that moved the breaker to HALF_OPEN awaits its trial, no
\* other call invokes the operation, and only the end of that trial moves the
\* breaker out of HALF_OPEN.
C9_SingleTrial ==
    [][/\ \A t, u \in Tasks :
             (t # u /\ cbPc[t] = "in_trial") =>
                 ~(CallStep(u) /\ cbPc'[u] \in {"in_func", "in_trial"})
       /\ (state = "HALF_OPEN" /\ state' # "HALF_OPEN") =>
             \E t \in Tasks : cbPc[t] = "in_trial" /\ cbPc'[t] # "in_trial"]_vars

\* Task t awaits func
InFunc(t) == cbPc[t] \in {"in_func", "in_trial"}

\* C22: a call whose func returns while the breaker is CLOSED, and a call
\* whose func raises an exception that is no instance of expected_exception,
\* leave failure_count, last_failure_time and state as they are, and the
\* exception reaches the caller as raised.
C22_OnlyRecognizedFailuresCount ==
    [][\A t \in Tasks :
          /\ (InFunc(t) /\ cbPc'[t] = "returned" /\ state = "CLOSED") =>
                 UNCHANGED <<state, failure_count, last_failure_time>>
          /\ (InFunc(t) /\ cbPc'[t] = "raised_other") =>
                 /\ UNCHANGED <<state, failure_count, last_failure_time>>
                 /\ ~IsInstance(cbErr'[t], expected_exception)
          /\ (InFunc(t) /\ cbPc'[t] \in {"raised", "raised_other"}) =>
                 (failure_count' # failure_count <=>
                     IsInstance(cbErr'[t], expected_exception))]_vars

\* C22 witness: a breaker that counts ConnectionError only let a plain
\* Exception through with a failure on its count and stayed CLOSED
C22_Witness ==
    /\ expected_exception = "ConnectionError"
    /\ state = "CLOSED"
    /\ failure_count = 1
    /\ \E t \in Tasks : cbPc[t] = "raised_other" /\ cbErr[t] = "Exception"

\* C23: every step that enters CLOSED sets failure_count to 0, and no other
\* step decreases failure_count.
C23_CountResetOnlyOnClose ==
    [][/\ (state # "CLOSED" /\ state' = "CLOSED") => failure_count' = 0
       /\ failure_count' < failure_count =>
             (state # "CLOSED" /\ state' = "CLOSED")]_vars

\* C23 witness: a trial succeeded after the breaker had opened
C23_Witness ==
    /\ state = "CLOSED"
    /\ failure_count = 0
    /\ cbConsec = 0
    /\ cbCalls > failure_threshold
    /\ \E t \in Tasks : cbPc[t] = "returned"

\* C28: the exception with which call() rejects is of a kind of its own: it
\* is of another class than every exception func may raise, and it is no
\* instance of the breaker's expected_exception.
C28_RejectionIsDistinct ==
    \A t \in Tasks :
        cbPc[t] = "rejected" =>
            /\ cbErr[t] \notin ExcClasses
            /\ ~IsInstance(cbErr[t], expected_exception)

\* C30: call() invokes func once when it does not reject and never when it
\* rejects: func starts only as a call starts, its outcome ends the call,
\* and a rejected call ends without it.
C30_NeverRetries ==
    [][/\ \A t \in Tasks :
             /\ (InFunc(t)' /\ cbPc'[t] # cbPc[t]) => cbPc[t] = "idle"
             /\ (InFunc(t) /\ cbPc'[t] # cbPc[t]) =>
                    cbPc'[t] \in {"returned", "raised", "raised_other"}
             /\ (cbPc'[t] = "rejected" /\ cbPc[t] # "rejected") => cbPc[t] = "idle"
             /\ (cbPc[t] = "rejected" /\ cbPc'[t] # "rejected") => cbPc'[t] = "idle"
       /\ <<state, failure_count, last_failure_time>>' #
             <<state, failure_count, last_failure_time>> => cbPc' # cbPc]_vars

\* C30 witness: MaxCalls calls were made, one ended by a counted failure and
\* one was rejected
C30_Witness ==
    /\ cbCalls = MaxCalls
    /\ \E t, u \in Tasks : cbPc[t] = "raised" /\ cbPc[u] = "rejected"

(***************************************************************************)
(* Properties of the shutdown manager                                      *)
(***************************************************************************)

\* Request r arrives (its dispatch begins) in this step
Arrives(r) == req[r] = "new" /\ req'[r] # "new"

\* C10: a request that arrives while shutting_down is false is admitted (counted,
\* its handler started); one that arrives once shutting_down is true gets the
\* 503 without its handler running; and active_requests never increases once
\* shutting_down is true.
C10_NoAdmissionDuringShutdown ==
    [][/\ \A r \in Requests :
             Arrives(r) =>
                 IF shutting_down
                 THEN req'[r] = "rejected" /\ active_requests' = active_requests
                 ELSE req'[r] = "active" /\ active_requests' = active_requests + 1
       /\ shutting_down => active_requests' <= active_requests]_vars

\* C10 witness: one request was admitted before shutdown began and is still
\* active, another arrived during shutdown and was rejected
C10_Witness ==
    /\ shutting_down
    /\ \E r, q \in Requests : req[r] = "active" /\ req[q] = "rejected"

\* C11: shutting_down starts false, becomes true in the step that begins
\* on_shutdown (and in no other), and no step ever sets it back to false.
C11_ShuttingDownMonotonic ==
    /\ ~shutting_down
    /\ [][/\ shutting_down => shutting_down'
          /\ (sdPc = "running" /\ sdPc' # "running") => shutting_down'
          /\ (~shutting_down /\ shutting_down') => sdPc = "running"]_vars

\* C11 witness: on_shutdown has run to its end, requests came and went and a
\* callback was registered meanwhile, and shutting_down is still true
C11_Witness ==
    /\ shutting_down
    /\ sdPc = "done"
    /\ Len(shutdown_callbacks) > sdRegistered
    /\ \E r, q \in Requests : req[r] = "finished" /\ req[q] = "rejected"

\* C12: active_requests is never negative and is the number of requests
\* admitted and not finished: dispatch counts an admitted request once and
\* uncounts it once when its handler returns or raises, a rejected request
\* leaves it alone, and so does every step of on_shutdown.
C12_ActiveRequestsExact ==
    /\ active_requests >= 0
    /\ active_requests = Cardinality({r \in Requests : req[r] = "active"})

\* C12 witness: during shutdown one admitted request is still in its handler
\* after another ended by raising and the drain wait gave up on it
C12_Witness ==
    /\ sdPc = "done"
    /\ active_requests = 1
    /\ \E r, q \in Requests : req[r] = "active" /\ req[q] = "failed"

\* on_shutdown evaluates the condition of its drain loop in this step: on
\* entry, or when its sleep is over
Polls == (sdPc = "running" /\ sdPc' # "running") \/
         (sdPc = "sleeping" /\ sdWake' # sdWake)

\* The seconds the drain wait has lasted
Elapsed == IF sdPc = "sleeping" THEN now - sdStart ELSE 0

\* C13: the drain wait always ends. Each poll leaves the wait for the
\* callbacks when active_requests is 0 or the elapsed time exceeds
\* shutdown_timeout, requests active or not, and sleeps one more second
\* otherwise; the wait never lasts longer than shutdown_timeout plus one poll
\* interval; and a wait that has begun is over at some later time.
C13_DrainWaitEnds ==
    /\ [](sdPc = "sleeping" => Elapsed <= shutdown_timeout + 1)
    /\ [][/\ Polls =>
               IF active_requests = 0 \/ Elapsed > shutdown_timeout
               THEN sdPc' = "callbacks"
               ELSE sdPc' = "sleeping" /\ sdWake' = now + 1
          /\ (sdPc = "sleeping" /\ sdPc' # "sleeping") => Polls]_vars
    /\ (sdPc = "sleeping" ~> sdPc = "callbacks")

\* C13 witness: the wait was left for the callbacks with both requests still
\* in their handlers
C13_Witness ==
    /\ sdPc = "callbacks"
    /\ active_requests = Cardinality(Requests)
    /\ now > shutdown_timeout

\* The events of sdLog about callback i
EventsOf(i, ev) == {n \in 1..Len(sdLog) : sdLog[n].idx = i /\ sdLog[n].ev = ev}

\* Sequence s begins with sequence p
IsPrefix(p, s) == Len(p) <= Len(s) /\ SubSeq(s, 1, Len(p)) = p

\* What the loop of _run_shutdown_callbacks does next between two callbacks
LoopStep ==
    \/ CallbackStartAsync
    \/ \E outcome \in {"completed", "failed", "never_returns"} : CallbackSync(outcome)
    \/ CallbacksDone

FailedEnd ==
    /\ Len(sdLog') > Len(sdLog)
    /\ sdLog'[Len(sdLog')].ev = "end"
    /\ sdLog'[Len(sdLog')].outcome = "failed"

ShutdownStep ==
    \/ WaitPoll
    \/ LoopStep
    \/ \E outcome \in {"completed", "failed", "timed_out"} : CallbackEndAsync(outcome)
    \/ FinalCleanup
    \/ TickSD

\* C16: every callback, coroutine function or plain function, is cut off by
\* its timeout: on_shutdown, once begun and not yet over, can always go on
\* towards _final_cleanup and its end, also in a callback that never returns.
C16_EveryCallbackTimeBoxed ==
    (shutting_down /\ sdPc # "done") => ENABLED ShutdownStep

(***************************************************************************)
(* Properties of the cache                                                 *)
(***************************************************************************)

\* This step is a call of the cache operation op
CacheCall(op) == cLast' # cLast /\ cLast'.op = op

\* C17: while key k has been set and neither set again nor invalidated since,
\* a get(k) at a time not past the expires_at of that set returns its value
\* and leaves the map alone, and a get(k) at a time past it returns absent and
\* leaves k out of the map.
C17_GetHonoursExpiry ==
    [][\A k \in CacheKeys :
          (CacheCall("get") /\ cLast'.key = k /\ cWritten[k] # None) =>
              LET w == cWritten[k][1] IN
              IF now <= w.expires_at
              THEN cLast'.result = w.value /\ data' = data /\ data[k] = Some(w)
              ELSE cLast'.result = "PyNone" /\ data'[k] = None]_vars

\* C17 witness: a get found the value "v1" of the last set past its expires_at
\* and purged it
C17_Witness ==
    /\ cLast.op = "get"
    /\ cLast.removed = 1
    /\ cLast.result = "PyNone"
    /\ cWritten[cLast.key] # None
    /\ cWritten[cLast.key][1].value = "v1"
    /\ cLast.at > cWritten[cLast.key][1].expires_at
    /\ data[cLast.key] = None

\* C18: set(key, value, ttl) never raises and leaves for key one entry holding
\* value whose expires_at is the time of the call plus ttl when a ttl is
\* passed, plus the cache's default max_age when none is; the entries of the
\* other keys are unchanged.
C18_SetStoresEntry ==
    [][CacheCall("set") =>
          LET c == cLast' IN
          /\ c.result # "raise"
          /\ data'[c.key] # None
          /\ data'[c.key][1].value = c.value
          /\ data'[c.key][1].expires_at =
                 c.at + (IF c.ttl # None THEN c.ttl[1] ELSE max_age)
          /\ \A k \in CacheKeys \ {c.key} : data'[k] = data[k]]_vars

\* C19: invalidate(k) removes k's entry when there is one and changes nothing
\* else, never raises, and a second invalidate(k) leaves the map of the first.
C19_InvalidateIdempotent ==
    /\ [](\A k \in CacheKeys :
              Invalidated(Invalidated(data, k), k) = Invalidated(data, k))
    /\ [][\A k \in CacheKeys :
              (CacheCall("invalidate") /\ cLast'.key = k) =>
                  /\ cLast'.result # "raise"
                  /\ data'[k] = None
                  /\ \A j \in CacheKeys \ {k} : data'[j] = data[j]
                  /\ data' = Invalidated(data', k)]_vars

\* C19 witness: invalidate removed the entry of one key and the other key
\* still has its entry
C19_Witness ==
    /\ cLast.op = "invalidate"
    /\ cLast.removed = 1
    /\ data[cLast.key] = None
    /\ \E j \in CacheKeys : data[j] # None

\* s occurs in k: k is u, s, v in a row for some strings u and v
IsSubstring(s, k) ==
    \E a \in 0..Len(k), b \in 0..Len(k) :
        a + Len(s) + b = Len(k) /\ SubSeq(k, a + 1, a + Len(s)) = s

C26_ExpiryIsCreationPlusTTL ==
    [][/\ CacheCall("set") =>
             LET entry == data'[cLast'.key][1] IN
             entry.expires_at = entry.created_at + OrDefault(cLast'.ttl, max_age)
       /\ \A k \in CacheKeys :
             (data'[k] # data[k] /\ data'[k] # None) =>
                 (CacheCall("set") /\ cLast'.key = k)]_vars


(***************************************************************************)
(* Properties of cached() and of the tasks that set keys                   *)
(***************************************************************************)

\* The entry of key that a later call of the wrapper would hit: written by
\* the wrapper, not invalidated since, not expired at time t
ValidEntry(key, t) ==
    /\ cWritten[key] # None
    /\ data[key] = cWritten[key]
    /\ ~(t > cWritten[key][1].expires_at)

\* C21: once a call of the wrapper has missed, executed the operation and
\* returned r, every later call with the same arguments made while that
\* entry is neither expired nor invalidated returns r and does not execute
\* the operation, whatever r is, None included.
C21_HitReturnsWithoutExecuting ==
    [][\A t \in CacheTasks, c \in WrapperCalls :
          (WrapperCall(t, c.fn, c.args)
              /\ ValidEntry(WrapperKey(c.fn, c.args), now)) =>
             /\ wRuns' = wRuns
             /\ wPc'[t] = "idle"
             /\ wResult'[t] = cWritten[WrapperKey(c.fn, c.args)][1].value]_vars

\* The same for every result but None, which is what the wrapper does
C21_HitOfNonNone ==
    [][\A t \in CacheTasks, c \in WrapperCalls :
          (WrapperCall(t, c.fn, c.args)
              /\ ValidEntry(WrapperKey(c.fn, c.args), now)
              /\ cWritten[WrapperKey(c.fn, c.args)][1].value # "PyNone") =>
             /\ wRuns' = wRuns
             /\ wPc'[t] = "idle"
             /\ wResult'[t] = cWritten[WrapperKey(c.fn, c.args)][1].value]_vars

\* A set of one task has written every stored entry: its value, expires_at
\* and created_at are those of one call
FromOneCall(k) ==
    \E t \in CacheTasks : wWrote[t] = Some([key |-> k, entry |-> data[k][1]])

\* C27: after any interleaving of the set calls of several tasks on a key,
\* the entry stored for the key has the value, expires_at and created_at of
\* exactly one of those calls, never fields of different calls.
C27_EntryFromOneSet ==
    \A k \in CacheKeys : data[k] # None => FromOneCall(k)

\* Two tasks have set the same key with different values, lifetimes and times
C27_Witness ==
    \E k \in CacheKeys : \E t1, t2 \in CacheTasks :
        /\ t1 # t2
        /\ wWrote[t1] # None /\ wWrote[t2] # None
        /\ wWrote[t1][1].key = k /\ wWrote[t2][1].key = k
        /\ wWrote[t1][1].entry.value # wWrote[t2][1].entry.value
        /\ wWrote[t1][1].entry.expires_at # wWrote[t2][1].entry.expires_at
        /\ wWrote[t1][1].entry.created_at # wWrote[t2][1].entry.created_at
        /\ data[k] = Some(wWrote[t2][1].entry)

(***************************************************************************)
(* Frame of the cache operations                                           *)
(***************************************************************************)

\* The entry of k is past its expires_at at time t
Expired(k, t) == data[k] # None /\ t > data[k][1].expires_at

\* C31: expiry is lazy and get has no other effect: an entry leaves the map
\* or changes only by a get of its own key that finds it expired, a set of
\* its own key, or an invalidate or invalidate_pattern that matches it; the
\* passage of time and the calls on other keys leave it, and a get of a
\* missing or unexpired key leaves the whole map as it was.
C31_LazyExpiryAndFrame ==
    [][/\ \A k \in CacheKeys :
            data'[k] # data[k] =>
               \/ CacheGet(k) /\ Expired(k, now) /\ data'[k] = None
               \/ \E value \in Values, ttl \in TTLArgs, late \in {0, 1} :
                     CacheSet(k, value, ttl, late)
               \/ CacheInvalidate(k) /\ data'[k] = None
               \/ \E pattern \in Patterns :
                     /\ CacheInvalidatePattern(pattern)
                     /\ IsSubstring(pattern, k) /\ data'[k] = None
       /\ \A k \in CacheKeys :
            (CacheGet(k) /\ ~Expired(k, now)) => data' = data]_vars

\* An entry is still in the map past its expires_at, after a second has
\* passed and a get of another key has run
C31_Witness ==
    \E k \in CacheKeys :
        /\ Expired(k, now)
        /\ now > data[k][1].expires_at + 1
        /\ cLast.op = "get" /\ cLast.key # k /\ cLast.at = now

(***************************************************************************)
(* Further properties of the rate limiter                                  *)
(***************************************************************************)

\* The timestamps of a bucket never decrease from its head to its tail
OldestFirst(bucket) ==
    \A i \in 1..Len(bucket), j \in 1..Len(bucket) : i < j => bucket[i] <= bucket[j]

\* C32: every bucket is ordered oldest first: after any sequence of
\* check_rate_limit calls on a key, in any order of the callers, its
\* timestamps never decrease from head to tail, so the head of the bucket and
\* of its 1-minute window is the oldest timestamp of it.
C32_BucketsOldestFirst ==
    \A k \in Keys :
        /\ OldestFirst(buckets[k])
        /\ \A i \in 1..Len(buckets[k]) : buckets[k][1] <= buckets[k][i]
        /\ LET recent_minute == RecentMinute(buckets[k], now)
           IN  \A i \in 1..Len(recent_minute) : recent_minute[1] <= recent_minute[i]

\* A bucket of timestamps of different seconds, both in the last minute
C32_Witness ==
    LET recent_minute == RecentMinute(buckets[Client], now)
    IN  /\ Len(recent_minute) > 1
        /\ recent_minute[1] < recent_minute[Len(recent_minute)]

\* C33: check_rate_limit never raises: for every bucket and every pair of
\* limits >= 0, a limit of 0 on an empty bucket included, it returns
\* (True, None) or (False, r) with r >= 1.
C33_NeverRaises ==
    /\ rlLast.outcome # "raise"
    /\ rlLast.outcome = "allow" => rlLast.retry = None
    /\ rlLast.outcome = "deny" => rlLast.retry # None /\ rlLast.retry[1] >= 1

\* The rule that denies a call with limits m, h at time t on a bucket, if any
DenyingRule(bucket, m, h, t) ==
    LET r == CheckResult(bucket, m, h, t)
    IN  IF r.outcome = "allow" THEN "none" ELSE r.rule

C35_KeysIsolated ==
    [][\A k \in Keys :
          CheckKey(k) =>
             /\ \A k2 \in Keys \ {k} : buckets'[k2] = buckets[k2]
             /\ LET alone == CheckResult(rlAllowed[k], rlProfile[k].m,
                                         rlProfile[k].h, now)
                IN  /\ rlLast'.outcome = alone.outcome
                    /\ rlLast'.retry = alone.retry
                    /\ buckets'[k] = alone.bucket]_vars

\* A call on one key is allowed at an instant at which the other key, with
\* its own limits, is denied
C35_Witness ==
    \E k \in Keys, k2 \in Keys :
        /\ k # k2
        /\ rlLast.key = k /\ rlLast.at = now /\ rlLast.outcome = "allow"
        /\ buckets[k2] # << >>
        /\ DenyingRule(buckets[k2], rlProfile[k2].m, rlProfile[k2].h, now) # "none"

(***************************************************************************)
(* get between its expiry check and its purge                              *)
(***************************************************************************)

\* C36: a get(k) that has found its entry expired is safe among the other
\* operations on k: its del never raises because k was removed in between,
\* and it never removes an entry that a set wrote after the expiry check:
\* the entry it removes is in the map and expired.
C36_PurgeSafe ==
    [][\A t \in CacheTasks :
          GetPurge(t) =>
             /\ wResult'[t] = "PyNone"
             /\ Expired(wArgs[t], now)
             /\ data' = [data EXCEPT ![wArgs[t]] = None]]_vars

\* A get of one task has purged the expired entry of a key, never
\* invalidated, that the get of the other task had hit before it expired
C36_Witness ==
    \E t \in CacheTasks, t2 \in CacheTasks, k \in CacheKeys :
        /\ t # t2
        /\ cLast.op = "get" /\ cLast.key = k /\ cLast.removed = 1
        /\ wResult[t] = "PyNone"
        /\ data[k] = None
        /\ cWritten[k] # None
        /\ wResult[t2] = cWritten[k][1].value /\ wResult[t2] # "PyNone"

(***************************************************************************)
(* Concurrent calls of a function decorated with cached()                  *)
(***************************************************************************)

\* C37: when several tasks call the same memoized function with the same
\* arguments while no valid entry exists, the operation is executed once:
\* no two tasks are ever inside the wrapped function for the same key at
\* the same time.
C37_ExecutedOnce ==
    \A t1 \in CacheTasks, t2 \in CacheTasks :
        (t1 # t2 /\ wPc[t1] = "in_func" /\ wPc[t2] = "in_func") =>
            wArgs[t1] # wArgs[t2]

(***************************************************************************)
(* The breaker's state against its count                                   *)
(***************************************************************************)

\* C38: in every reachable state of a breaker with failure_threshold >= 1,
\* whatever the order of its concurrent calls: OPEN implies failure_count >=
\* failure_threshold and last_failure_time set; CLOSED implies
\* failure_count < failure_threshold.
C38_StateMatchesCount ==
    failure_threshold >= 1 =>
        /\ state = "OPEN" =>
              failure_count >= failure_threshold /\ last_failure_time # None
        /\ state = "CLOSED" => failure_count < failure_threshold

\* The breaker is CLOSED with failures counted, one call returned and another
\* still in func, after more calls than the largest threshold
C38_Witness ==
    /\ state = "CLOSED"
    /\ failure_count > 0
    /\ \E t \in Tasks : cbPc[t] = "returned"
    /\ \E t \in Tasks : cbPc[t] = "in_func"
    /\ cbCalls > MaxThreshold + 1

(***************************************************************************)
(* Properties of MongoDBPool and of ErrorTracker                           *)
(***************************************************************************)

\* C39: get_instance never hands out an unusable instance: under any order
\* of concurrent calls, initialization runs at most once at a time, and
\* every instance a caller receives is connected, its initialization
\* complete, so that get_db() on it does not raise, also after an
\* initialization that failed.
C39_InstanceUsable ==
    /\ Cardinality({t \in DbTasks : dbPc[t] = "in_ping"}) <= 1
    /\ \A t \in DbTasks :
          dbGot[t].result = "instance" =>
             dbGot[t].connected /\ dbGot[t].db # "raised"

\* The ids of the entries that were logged before every other stored entry
Earliest(errors) ==
    {id \in Stored(errors) :
        \A other \in Stored(errors) : errors[id][1] <= errors[other][1]}

\* C40: the tracker keeps the most recent errors: after every log_error
\* recent_errors holds at most max_recent entries, an eviction removes the
\* entry logged earliest, and the error just logged is retrievable with
\* get_error and the id that log_error returned.
C40_KeepsMostRecent ==
    /\ Cardinality(Stored(recent_errors)) <= max_recent
    /\ etLast.id # 0 =>
          /\ GetError(recent_errors, etLast.id) = Some(etLast.count)
          /\ etLast.evicted # None =>
                \E id \in Earliest(etLast.before) :
                    etLast.evicted = etLast.before[id]

\* The part of C40 that the tracker keeps: the size of recent_errors
C40_SizeBounded == Cardinality(Stored(recent_errors)) <= max_recent
====
